---- MODULE Spec2Model ----
(***************************************************************************)
(* The editor-history recovery scripts of the repository as one state      *)
(* machine: a run of one script over a sampled disk (history roots, tracked *)
(* file folders with their entries.json manifest and snapshot blobs),      *)
(* followed by a second run against the output directory the first left.   *)
(*                                                                         *)
(*   search_history_records.py   all versions of Records.tsx, four roots   *)
(*   recover_history_master.py   entries of the last 7 days, one root      *)
(*   recover_history.py          does not compile (line 33)                *)
(*   find_records_history.py     files of about 599252 bytes, three roots  *)
(*   recover_today.py            files modified today, four roots          *)
(*                                                                         *)
(* and the scripts that patch a block of the recovered Records.tsx, each   *)
(* applied twice to a sampled file:                                        *)
(*                                                                         *)
(*   update_records_fixed_final.py   block from "// 1. Calculate Sute      *)
(*                                   Weight" to the return statement       *)
(*   update_records_final.py         block from "// 1. Base Rate Amount"   *)
(***************************************************************************)
EXTENDS Integers, Sequences, FiniteSets, TLC

VARIABLES
    script,     \* which script runs
    now,        \* datetime.now() of the run
    dirs,       \* disk: history root -> Missing, or its os.listdir() order
    manifest,   \* disk: folder -> what entries.json of the folder holds
    files,      \* disk: path of an existing file -> size, mtime, first bytes
    pc,         \* position of the script
    ri,         \* index into history_paths (for history_path in ...)
    fi,         \* index into os.listdir(history_path)
    found_files, \* found_files
    k,          \* index of the listing/copy loop
    listing,    \* candidates printed by the listing/copy loop, in order
    outdir,     \* RECOVERED_FILES: file name -> content
    prior,      \* RECOVERED_FILES as the run met it
    run,        \* 1 for the first run, 2 for the second
    removals,   \* blobs removed by others while the script runs
    target,     \* disk: the lines of Records.tsx at file_path
    lines,      \* lines, as f.readlines() gave them and the patch changes them
    start_line, \* start_line
    end_line,   \* end_line
    writes,     \* how often Records.tsx was opened for writing
    first       \* what the first application of the patch found and left

vars == <<script, now, dirs, manifest, files, pc, ri, fi, found_files, k, listing,
          outdir, prior, run, removals, target, lines, start_line, end_line,
          writes, first>>

\* the state of the recovery scripts, and the state of the patch scripts
scanVars == <<now, dirs, manifest, files, ri, fi, found_files, k, listing,
              outdir, prior, removals>>
patchVars == <<target, lines, start_line, end_line, writes, first>>

-----------------------------------------------------------------------------
(* Bounds of the sampled disk and of the run.                              *)

\* snapshot entries on the disk, over all manifests
MaxEntries == 3
\* blobs another process removes during the copy loops
MaxRemovals == 1
\* found_files[:100] of recover_history_master.py, scaled to the sampled disk
MasterLimit == 2
\* found[:10] of find_records_history.py, scaled
FindLimit == 2
\* found[:50] of recover_today.py, scaled
TodayLimit == 2

-----------------------------------------------------------------------------
(* Strings: os.path.basename, str.lower, the `in` operator.                *)

LowerChar(c) ==
    CASE c = "R" -> "r" [] c = "E" -> "e" [] c = "C" -> "c" [] c = "O" -> "o"
      [] c = "D" -> "d" [] c = "S" -> "s" [] c = "T" -> "t" [] c = "X" -> "x"
      [] c = "A" -> "a" [] c = "P" -> "p" [] c = "B" -> "b" [] c = "K" -> "k"
      [] OTHER -> c

RECURSIVE Lower(_)
Lower(s) ==
    IF Len(s) = 0 THEN ""
    ELSE LowerChar(SubSeq(s, 1, 1)) \o Lower(SubSeq(s, 2, Len(s)))

\* needle in hay
Contains(needle, hay) ==
    \E i \in 1..(Len(hay) - Len(needle) + 1) :
        SubSeq(hay, i, i + Len(needle) - 1) = needle

IsSep(c) == c = "/" \/ c = "\\"

\* os.path.basename (ntpath): what follows the last / or \
Basename(p) ==
    LET seps == {i \in 1..Len(p) : IsSep(SubSeq(p, i, i))}
        last == IF seps = {} THEN 0 ELSE CHOOSE i \in seps : \A j \in seps : j <= i
    IN  SubSeq(p, last + 1, Len(p))

target_filename == "Records.tsx"

-----------------------------------------------------------------------------
(* Time: datetime.fromtimestamp, datetime comparison and strftime.  A      *)
(* datetime is held as the day since the epoch, the second of the day and  *)
(* the microsecond; local time is taken to be UTC.  The sampled timestamps *)
(* lie in January 1970.                                                    *)

\* entry.get('timestamp', 0) / 1000: milliseconds to seconds
MsPerSecond == 1000
DayMs == 24 * 60 * 60 * MsPerSecond

\* datetime.fromtimestamp(entry.get('timestamp', 0) / 1000)
FromTimestamp(ms) ==
    [day |-> ms \div DayMs,
     second |-> (ms % DayMs) \div MsPerSecond,
     microsecond |-> (ms % MsPerSecond) * MsPerSecond]

\* a > b on datetimes
After(a, b) ==
    \/ a.day > b.day
    \/ a.day = b.day /\ a.second > b.second
    \/ a.day = b.day /\ a.second = b.second /\ a.microsecond > b.microsecond

\* dt - timedelta(days=n)
MinusDays(dt, n) == [dt EXCEPT !.day = @ - n]

\* dt.strftime('%m%d') and dt.strftime('%H%M%S'): the year and the
\* fraction of the second are not printed
StrfMonthDay(dt) == dt.day % 365
StrfHMS(dt) == dt.second

\* sampled timestamps of snapshot entries, in ms
\* 1970-01-11 01:00:00.000
T1 == (10 * 24 * 60 * 60 + 60 * 60) * MsPerSecond
\* 1970-01-11 01:00:00.500, the same second
T2 == T1 + 500
\* 1970-01-03 01:00:00.000, eight days before
TOld == T1 - 8 * DayMs

\* 1970-01-11 01:00:01.500, the next second
T3 == T1 + 1500

\* sampled clock of the run: 1970-01-11 02:00:00
NowSamples == {FromTimestamp(T1 + 60 * 60 * MsPerSecond)}

-----------------------------------------------------------------------------
(* The scripts and their hard-coded configuration.                         *)

Search == "search_history_records"
Master == "recover_history_master"
Unique == "recover_history"
Find == "find_records_history"
Today == "recover_today"
Scripts == {Search, Master, Unique, Find, Today}

\* the scripts that read entries.json, and those that os.walk the roots
ManifestScripts == {Search, Master}
WalkScripts == {Find, Today}

\* history_paths / history_path
history_paths(s) ==
    IF s \in {Search, Today}
    THEN << "C:\\Users\\maju\\AppData\\Roaming\\Code\\User\\History",
            "C:\\Users\\maju\\AppData\\Roaming\\Cursor\\User\\History",
            "C:\\Users\\maju\\AppData\\Local\\Cursor\\User\\History",
            "C:\\Users\\maju\\AppData\\Local\\Code\\User\\History" >>
    ELSE IF s = Find
    THEN << "C:\\Users\\maju\\AppData\\Roaming\\Code\\User\\History",
            "C:\\Users\\maju\\AppData\\Roaming\\Cursor\\User\\History",
            "C:\\Users\\maju\\AppData\\Local\\Cursor\\User\\History" >>
    ELSE << "C:\\Users\\maju\\AppData\\Roaming\\Code\\User\\History" >>

Roots(s) == {history_paths(s)[i] : i \in DOMAIN history_paths(s)}

-----------------------------------------------------------------------------
(* The sampled disk.                                                       *)

\* entry.get('id') of an entry without "id"
NoId == "None"

\* what a name listed in a history root can be
NotDir == "not a directory"
NoManifest == "no entries.json"
BadJson == "entries.json does not parse"
ParsedJson == "entries.json parses"

F1 == "-1a2b3c"
F2 == "4d5e6f"
Folders == {F1, F2}

\* data.get('resource', ''): the tracked file; another file; the tracked
\* file's name in capitals; the name in a directory component only
RecordsUri == "file:///c%3A/proj/client/src/pages/Records.tsx"
AppUri == "file:///c%3A/proj/client/src/App.tsx"
CapitalsUri == "file:///c%3A/proj/client/src/pages/RECORDS.TSX"
DirectoryUri == "file:///c%3A/proj/Records.tsx.bak/index.ts"
ResourceSamples == {RecordsUri, AppUri, CapitalsUri, DirectoryUri}

\* the blobs every folder of the sampled disk holds, and their sizes
BlobSamples == {"a.tsx", "b.tsx", "c.tsx"}
BlobSize(id) == IF id = "c.tsx" THEN 580000 ELSE 599252

\* snapshot entries a manifest can list; the last one has no "id"
EntrySamples ==
    { [id |-> "a.tsx", timestamp |-> T1],
      [id |-> "b.tsx", timestamp |-> T2],
      [id |-> "c.tsx", timestamp |-> TOld],
      [id |-> "gone.tsx", timestamp |-> T1],
      [id |-> NoId, timestamp |-> T1] }

\* the entry lists of n entries a manifest of resource u is sampled with: all
\* of them for Records.tsx, a single list for the other resources
SeqsOfLen(s, u, n) ==
    IF u # RecordsUri
    THEN IF n = 1 THEN {<<[id |-> "a.tsx", timestamp |-> T1]>>} ELSE {}
    ELSE [1..n -> EntrySamples]

Parsed(s, n) ==
    UNION { {[kind |-> ParsedJson, resource |-> u, entries |-> es] :
                es \in SeqsOfLen(s, u, n)} : u \in ResourceSamples }
ParsedUpTo(s, n) == UNION {Parsed(s, m) : m \in 0..n}
Unparsed ==
    {[kind |-> x, resource |-> "", entries |-> <<>>] : x \in {NotDir, NoManifest, BadJson}}

\* the manifests of the two folders, MaxEntries entries at most in all
ManifestSamples(s) ==
    UNION { {[f \in Folders |-> IF f = F1 THEN m1 ELSE m2] :
                m1 \in Parsed(s, n), m2 \in ParsedUpTo(s, MaxEntries - n) \cup Unparsed}
            : n \in 0..MaxEntries }
    \cup {[f \in Folders |-> IF f = F1 THEN m1 ELSE m2] :
                m1 \in Unparsed, m2 \in ParsedUpTo(s, MaxEntries) \cup Unparsed}

Dir(list) == [exists |-> TRUE, list |-> list]
Missing == [exists |-> FALSE, list |-> <<>>]

\* where the folders are.  The scripts with several roots: the first root
\* missing, one folder in each of the next two, the fourth (if any) empty.
\* The scripts with one root: both folders in it.  Either: no root at all.
LayoutSamples(s) ==
    LET hp == history_paths(s)
    IN  IF Len(hp) > 1
        THEN { [r \in Roots(s) |->
                    IF r = hp[1] THEN Missing ELSE IF r = hp[2] THEN Dir(<<F1>>)
                    ELSE IF r = hp[3] THEN Dir(<<F2>>) ELSE Dir(<<>>)],
               [r \in Roots(s) |-> Missing] }
        ELSE { [r \in Roots(s) |-> Dir(<<F1, F2>>)],
               [r \in Roots(s) |-> Missing] }

\* os.path.join(history_path, folder, file_id)
Join(root, folder, id) == <<root, folder, id>>

\* the text a snapshot of a React page starts with, and one of another file
ReactHeader == "import React from 'react';"
OtherHeader == "<!DOCTYPE html>"

\* the blobs of the sampled disk the manifest scripts run on: BlobSamples in
\* every folder that is a directory
FileSamples(d, m) ==
    LET paths == {p \in (DOMAIN d) \X Folders \X BlobSamples :
                     /\ \E i \in DOMAIN d[p[1]].list : d[p[1]].list[i] = p[2]
                     /\ m[p[2]].kind # NotDir}
    IN  [p \in paths |-> [size |-> BlobSize(p[3]), mtime |-> T1,
                          header |-> ReactHeader, readable |-> TRUE]]

\* the files the walking scripts can meet: modified today, today a second
\* later, eight days ago at the same time of day; of 650000 bytes and of
\* 550000 bytes; not a React source; one that os.path.getsize / getmtime
\* cannot stat
WalkFileKinds ==
    { [size |-> 599252, mtime |-> T1, header |-> ReactHeader, readable |-> TRUE],
      [size |-> 599252, mtime |-> T3, header |-> ReactHeader, readable |-> TRUE],
      [size |-> 599252, mtime |-> TOld, header |-> ReactHeader, readable |-> TRUE],
      [size |-> 650000, mtime |-> T1, header |-> ReactHeader, readable |-> TRUE],
      [size |-> 550000, mtime |-> T1, header |-> ReactHeader, readable |-> TRUE],
      [size |-> 599252, mtime |-> T1, header |-> OtherHeader, readable |-> TRUE],
      [size |-> 599252, mtime |-> T1, header |-> ReactHeader, readable |-> FALSE] }

\* the file names of a folder, in the order os.walk lists them
WalkNames == <<"a.tsx", "b.tsx">>

\* the places of the sampled disk a file can be at: <<folder, name>>
WalkSlots == {<<F1, "a.tsx">>, <<F1, "b.tsx">>, <<F2, "a.tsx">>}

\* the disks the walking scripts run on: any of WalkFileKinds, or nothing,
\* at each of WalkSlots of the folders the layout has
WalkFileSamples(d) ==
    LET paths == {p \in (DOMAIN d) \X Folders \X {"a.tsx", "b.tsx"} :
                     /\ \E i \in DOMAIN d[p[1]].list : d[p[1]].list[i] = p[2]
                     /\ <<p[2], p[3]>> \in WalkSlots}
    IN  UNION {[ps -> WalkFileKinds] : ps \in SUBSET paths}

\* os.path.exists(src), os.path.getsize(src)
Exists(src) == src \in DOMAIN files

-----------------------------------------------------------------------------
(* The scan of one manifest (search_history_records.py 31-47,              *)
(* recover_history_master.py 28-44).                                       *)

\* dt > limit, with limit = now - timedelta(days=7)
Recent(dt) == After(dt, MinusDays(now, 7))

\* target_filename.lower() in resource_uri.lower()
NameMatches(uri) == Contains(Lower(target_filename), Lower(uri))

\* the tuple appended to found_files (recover_history_master keeps no size)
Candidate(s, dt, uri, src) ==
    [dt |-> dt, uri |-> uri, src |-> src,
     size |-> IF s = Search THEN files[src].size ELSE 0]

\* for entry in entries: ..., from entry i on, acc being what was appended so
\* far.  An entry without id makes os.path.join raise; the except clause
\* around the whole manifest then leaves the folder (continue).
RECURSIVE ScanEntries(_, _, _, _, _, _)
ScanEntries(s, root, folder, m, i, acc) ==
    IF i > Len(m.entries) THEN acc
    ELSE LET entry == m.entries[i]
             dt == FromTimestamp(entry.timestamp)
             src == Join(root, folder, entry.id)
         IN  IF s = Master /\ ~Recent(dt)
             THEN ScanEntries(s, root, folder, m, i + 1, acc)
             ELSE IF entry.id = NoId THEN acc
             ELSE IF Exists(src)
             THEN ScanEntries(s, root, folder, m, i + 1,
                              Append(acc, Candidate(s, dt, m.resource, src)))
             ELSE ScanEntries(s, root, folder, m, i + 1, acc)

\* the body of `for folder in os.listdir(history_path)`: what the folder
\* appends to found_files
FolderCandidates(s, root, folder) ==
    LET m == manifest[folder]
    IN  IF m.kind = NotDir THEN <<>>
        ELSE IF m.kind = NoManifest THEN <<>>
        ELSE IF m.kind = BadJson THEN <<>>
        ELSE IF s = Search /\ ~NameMatches(m.resource) THEN <<>>
        ELSE ScanEntries(s, root, folder, m, 1, <<>>)

-----------------------------------------------------------------------------
(* The walk of one folder (find_records_history.py 21-35,                  *)
(* recover_today.py 23-35).                                                *)

\* 550000 < size < 650000
SizeLow == 550000
SizeHigh == 650000
\* the window with its lower end taken in
SizeMatches_Inclusive(size) == SizeLow <= size /\ size < SizeHigh

SizeMatches(size) == SizeLow < size /\ size < SizeHigh

\* f.read(1000)
HeaderChars == 1000
ReadHeader(text) ==
    SubSeq(text, 1, IF Len(text) < HeaderChars THEN Len(text) ELSE HeaderChars)

\* 'import' in header and 'React' in header
HeaderMatches(header) == Contains("import", header) /\ Contains("React", header)

\* dt.date() == today, with today = date.today()
IsToday(dt) == dt.day = now.day

\* the tuple (dt, p, size) appended to found; mtime is held in ms
WalkCandidate(p) ==
    [dt |-> FromTimestamp(files[p].mtime), uri |-> "", src |-> p, size |-> files[p].size]

\* the try block of one file: whether it appends the file.  A file that
\* cannot be stat-ed raises, and `except: continue` goes to the next file.
WalkAccepts(s, p) ==
    /\ files[p].readable
    /\ IF s = Find
       THEN SizeMatches(files[p].size) /\ HeaderMatches(ReadHeader(files[p].header))
       ELSE IsToday(FromTimestamp(files[p].mtime))

\* for file in files: ..., from file i of the folder on
RECURSIVE WalkFiles(_, _, _, _, _)
WalkFiles(s, root, folder, i, acc) ==
    IF i > Len(WalkNames) THEN acc
    ELSE LET p == Join(root, folder, WalkNames[i])
         IN  IF Exists(p) /\ WalkAccepts(s, p)
             THEN WalkFiles(s, root, folder, i + 1, Append(acc, WalkCandidate(p)))
             ELSE WalkFiles(s, root, folder, i + 1, acc)

\* what one directory of os.walk(history_path) appends to found
WalkCandidates(s, root, folder) == WalkFiles(s, root, folder, 1, <<>>)

-----------------------------------------------------------------------------
(* Sorting, naming, copying.                                               *)

\* list.sort(key=lambda x: x[0], reverse=True): stable, descending
RECURSIVE InsertDesc(_, _)
InsertDesc(sorted, c) ==
    IF sorted = <<>> THEN <<c>>
    ELSE IF ~After(c.dt, Head(sorted).dt) THEN <<Head(sorted)>> \o InsertDesc(Tail(sorted), c)
    ELSE <<c>> \o sorted

RECURSIVE SortDesc(_)
SortDesc(seq) ==
    IF seq = <<>> THEN <<>>
    ELSE InsertDesc(SortDesc(SubSeq(seq, 1, Len(seq) - 1)), seq[Len(seq)])

\* the slice of the listing/copy loop: [:100], [:10], [:50]
HasLimit(s) == s \in {Master, Find, Today}
Limit(s) ==
    CASE s = Master -> MasterLimit
      [] s = Find -> FindLimit
      [] s = Today -> TodayLimit

\* found_files (search_history_records) or found_files[:limit]
Selected(s, fs) ==
    IF HasLimit(s) /\ Len(fs) > Limit(s) THEN SubSeq(fs, 1, Limit(s)) ELSE fs

\* safe_name, and the f-strings of the walking scripts
SafeName(s, c) ==
    CASE s = Search ->
            <<"REV", StrfMonthDay(c.dt), StrfHMS(c.dt), c.size, Basename(c.uri)>>
      [] s = Find -> <<"RECOVERED", StrfHMS(c.dt), "Records.tsx">>
      [] s = Today -> <<"TODAY", StrfHMS(c.dt), c.size, ".file">>
      [] OTHER -> <<StrfMonthDay(c.dt), StrfHMS(c.dt), Basename(c.uri)>>

\* Copy2 into a directory that is emptied first
Copy2_Fresh(dir, name, src) == [n \in {name} |-> src]

\* shutil.copy2(src, os.path.join(target_recovery_dir, safe_name)): the
\* file of that name now holds the bytes of src
Copy2(dir, name, src) ==
    [n \in DOMAIN dir \cup {name} |-> IF n = name THEN src ELSE dir[n]]

EmptyDir == [n \in {} |-> <<>>]

\* before the second application of a patch nothing is recorded of a first
NoFirst == [target |-> <<>>, start_line |-> -1, writes |-> 0]

-----------------------------------------------------------------------------
(* The runs.                                                               *)

Init ==
    /\ script \in Scripts
    /\ now \in NowSamples
    /\ dirs \in LayoutSamples(script)
    /\ IF script \in WalkScripts \/ \A r \in Roots(script) : ~dirs[r].exists
       THEN manifest = [f \in Folders |-> CHOOSE m \in Unparsed : m.kind = NoManifest]
       ELSE manifest \in ManifestSamples(script)
    /\ IF script \in WalkScripts
       THEN files \in WalkFileSamples(dirs)
       ELSE files = FileSamples(dirs, manifest)
    /\ pc = "start"
    /\ ri = 1
    /\ fi = 1
    /\ found_files = <<>>
    /\ k = 1
    /\ listing = <<>>
    /\ outdir = EmptyDir
    /\ prior = EmptyDir
    /\ run = 1
    /\ removals = 0
    /\ target = <<>>
    /\ lines = <<>>
    /\ start_line = -1
    /\ end_line = -1
    /\ writes = 0
    /\ first = NoFirst

Root == history_paths(script)[ri]

\* recover_history.py: line 33 is indented deeper than line 30 under no new
\* block, so the interpreter refuses the file (IndentationError)
CompileError ==
    /\ script = Unique
    /\ pc = "start"
    /\ pc' = "crashed"
    /\ UNCHANGED <<script, now, dirs, manifest, files, ri, fi, found_files, k, listing,
                   outdir, prior, run, removals>>
    /\ UNCHANGED patchVars

\* os.makedirs(target_recovery_dir, exist_ok=True); found_files = []
Start ==
    /\ script # Unique
    /\ pc = "start"
    /\ pc' = "roots"
    /\ ri' = 1
    /\ found_files' = <<>>
    /\ UNCHANGED <<script, now, dirs, manifest, files, fi, k, listing,
                   outdir, prior, run, removals>>
    /\ UNCHANGED patchVars

\* search_history_records.py 21-23, find_records_history.py 18-20,
\* recover_today.py 20-22: for history_path in history_paths:
\*     if not os.path.exists(history_path): continue
NextRoot ==
    /\ script \in {Search, Find, Today}
    /\ pc = "roots"
    /\ IF ri > Len(history_paths(script))
       THEN pc' = "sort" /\ UNCHANGED <<ri, fi>>
       ELSE IF ~dirs[Root].exists
       THEN ri' = ri + 1 /\ UNCHANGED <<pc, fi>>
       ELSE pc' = "folders" /\ fi' = 1 /\ UNCHANGED ri
    /\ UNCHANGED <<script, now, dirs, manifest, files, found_files, k, listing,
                   outdir, prior, run, removals>>
    /\ UNCHANGED patchVars

\* recover_history_master.py 17-19: if not os.path.exists(history_path):
\*     print("History path not found."); exit(1)
MasterCheckRoot ==
    /\ script = Master
    /\ pc = "roots"
    /\ IF ~dirs[Root].exists
       THEN pc' = "exited" /\ UNCHANGED fi
       ELSE pc' = "folders" /\ fi' = 1
    /\ UNCHANGED <<script, now, dirs, manifest, files, ri, found_files, k, listing,
                   outdir, prior, run, removals>>
    /\ UNCHANGED patchVars

\* ScanFolder without the except clause: json.load raising ends the run
ScanFolder_NoExcept ==
    /\ script \in ManifestScripts
    /\ pc = "folders"
    /\ fi <= Len(dirs[Root].list)
    /\ IF manifest[dirs[Root].list[fi]].kind = BadJson
       THEN pc' = "crashed" /\ UNCHANGED <<found_files, fi>>
       ELSE /\ found_files' = found_files \o FolderCandidates(script, Root, dirs[Root].list[fi])
            /\ fi' = fi + 1
            /\ UNCHANGED pc
    /\ UNCHANGED <<script, now, dirs, manifest, files, ri, k, listing,
                   outdir, prior, run, removals>>
    /\ UNCHANGED patchVars

\* one turn of `for folder in os.listdir(history_path)`
ScanFolder ==
    /\ script \in ManifestScripts
    /\ pc = "folders"
    /\ fi <= Len(dirs[Root].list)
    /\ found_files' = found_files \o FolderCandidates(script, Root, dirs[Root].list[fi])
    /\ fi' = fi + 1
    /\ UNCHANGED <<script, now, dirs, manifest, files, pc, ri, k, listing,
                   outdir, prior, run, removals>>
    /\ UNCHANGED patchVars

\* one directory of `for root, dirs, files in os.walk(history_path)`
WalkFolder ==
    /\ script \in WalkScripts
    /\ pc = "folders"
    /\ fi <= Len(dirs[Root].list)
    /\ found_files' = found_files \o WalkCandidates(script, Root, dirs[Root].list[fi])
    /\ fi' = fi + 1
    /\ UNCHANGED <<script, now, dirs, manifest, files, pc, ri, k, listing,
                   outdir, prior, run, removals>>
    /\ UNCHANGED patchVars

\* the folders of the root are exhausted
EndOfRoot ==
    /\ pc = "folders"
    /\ fi > Len(dirs[Root].list)
    /\ IF script = Master
       THEN pc' = "sort" /\ UNCHANGED ri
       ELSE pc' = "roots" /\ ri' = ri + 1
    /\ UNCHANGED <<script, now, dirs, manifest, files, fi, found_files, k, listing,
                   outdir, prior, run, removals>>
    /\ UNCHANGED patchVars

\* found_files.sort(key=lambda x: x[0], reverse=True)
Sort ==
    /\ pc = "sort"
    /\ found_files' = SortDesc(found_files)
    /\ pc' = "copy"
    /\ k' = 1
    /\ UNCHANGED <<script, now, dirs, manifest, files, ri, fi, listing,
                   outdir, prior, run, removals>>
    /\ UNCHANGED patchVars

\* one turn of the listing/copy loop: print the line, copy the blob.
\* shutil.copy2 raises when src is gone, and nothing catches it.
CopyNext ==
    /\ pc = "copy"
    /\ k <= Len(Selected(script, found_files))
    /\ LET c == Selected(script, found_files)[k]
       IN  /\ listing' = Append(listing, c)
           /\ IF Exists(c.src)
              THEN /\ outdir' = Copy2(outdir, SafeName(script, c), c.src)
                   /\ k' = k + 1
                   /\ UNCHANGED pc
              ELSE /\ pc' = "crashed"
                   /\ UNCHANGED <<outdir, k>>
    /\ UNCHANGED <<script, now, dirs, manifest, files, ri, fi, found_files,
                   prior, run, removals>>
    /\ UNCHANGED patchVars

\* the loop is over: the closing print, exit status 0
Finish ==
    /\ pc = "copy"
    /\ k > Len(Selected(script, found_files))
    /\ pc' = "done"
    /\ UNCHANGED <<script, now, dirs, manifest, files, ri, fi, found_files, k, listing,
                   outdir, prior, run, removals>>
    /\ UNCHANGED patchVars

Terminated == pc \in {"done", "exited", "crashed"}

\* the same script is started again, on the same disk and the output
\* directory as it is
Rerun ==
    /\ Terminated
    /\ run = 1
    /\ run' = 2
    /\ pc' = "start"
    /\ ri' = 1
    /\ fi' = 1
    /\ found_files' = <<>>
    /\ k' = 1
    /\ listing' = <<>>
    /\ prior' = outdir
    /\ UNCHANGED <<script, now, dirs, manifest, files, outdir, removals>>
    /\ UNCHANGED patchVars

\* another process removes the blob of a candidate that is still to be
\* copied (a removal before the scan reads the blob is a disk without it)
ExternalRemove ==
    /\ pc = "copy"
    /\ removals < MaxRemovals
    /\ \E j \in k..Len(Selected(script, found_files)) :
          LET src == Selected(script, found_files)[j].src
          IN  /\ Exists(src)
              /\ files' = [p \in DOMAIN files \ {src} |-> files[p]]
    /\ removals' = removals + 1
    /\ UNCHANGED <<script, now, dirs, manifest, pc, ri, fi, found_files, k, listing,
                   outdir, prior, run>>
    /\ UNCHANGED patchVars

Next ==
    \/ CompileError
    \/ Start
    \/ NextRoot
    \/ MasterCheckRoot
    \/ ScanFolder
    \/ WalkFolder
    \/ EndOfRoot
    \/ Sort
    \/ CopyNext
    \/ Finish
    \/ Rerun
    \/ ExternalRemove

Spec == Init /\ [][Next]_vars

-----------------------------------------------------------------------------
(* The patch scripts: update_records_fixed_final.py and                    *)
(* update_records_final.py.                                                *)

FixedFinal == "update_records_fixed_final"
Final == "update_records_final"
PatchScripts == {FixedFinal, Final}

\* new_logic of update_records_fixed_final.py (42 lines)
new_logic_fixed_final ==
    << "                                             // 1. Calculate Sute Weight (Deduction based on Physical Bags or Weight)\n",
       "                                             const suteValue = parseFloat(rateFormData.sute || '0');\n",
       "                                             const suteWeightKg = rateFormData.suteCalculationMethod === 'per_bag'\n",
       "                                               ? suteValue * bags\n",
       "                                               : (actualNetWeight / 100) * suteValue;\n",
       "\n",
       "                                             // 2. Sute Net Weight (Weight left after Sute is subtracted)\n",
       "                                             const suteNetWeight = actualNetWeight - suteWeightKg;\n",
       "\n",
       "                                             // 3. Base Rate Amount (Calculated ONLY on Sute Net Weight)\n",
       "                                             const baseDivisor = rateFormData.baseRateCalculationMethod === 'per_bag' ? 75 : 100;\n",
       "                                             const baseRateValue = parseFloat(rateFormData.baseRate || '0');\n",
       "                                             const baseRateAmount = (suteNetWeight / baseDivisor) * baseRateValue;\n",
       "\n",
       "                                             // 4. Other Charges (H, B, LF)\n",
       "                                             // If Per Bag: Always use Physical Bags\n",
       "                                             // If Per Quintal: Always use Original Net Weight\n",
       "                                             const hValue = parseFloat(rateFormData.h || '0');\n",
       "                                             const hAmount = rateFormData.hCalculationMethod === 'per_bag'\n",
       "                                               ? hValue * bags\n",
       "                                               : hValue * (actualNetWeight / 100);\n",
       "\n",
       "                                             const bValue = parseFloat(rateFormData.b || '0');\n",
       "                                             const bAmount = rateFormData.bCalculationMethod === 'per_bag'\n",
       "                                               ? bValue * bags\n",
       "                                               : bValue * (actualNetWeight / 100);\n",
       "\n",
       "                                             let lfValue = parseFloat(rateFormData.lf || '0');\n",
       "                                             if (['MDL', 'MDWB'].includes(rateFormData.rateType)) {\n",
       "                                               lfValue = 0;\n",
       "                                             }\n",
       "                                             const lfAmount = rateFormData.lfCalculationMethod === 'per_bag'\n",
       "                                               ? lfValue * bags\n",
       "                                               : lfValue * (actualNetWeight / 100);\n",
       "\n",
       "                                             // 5. EGB (Always uses Physical Bags)\n",
       "                                             const showEGB = ['CDL', 'MDL'].includes(rateFormData.rateType);\n",
       "                                             const egbAmount = showEGB ? bags * parseFloat(rateFormData.egb || '0') : 0;\n",
       "\n",
       "                                             // 6. Total = Base Amount + All Adjustments\n",
       "                                             const totalAmount = baseRateAmount + hAmount + bAmount + lfAmount + egbAmount;\n",
       "                                             return totalAmount.toFixed(2);\n" >>

\* new_logic of update_records_final.py (36 lines)
new_logic_final ==
    << "                                             // 1. Base Rate Amount (On Actual Net Weight)\n",
       "                                             const baseDivisor = rateFormData.baseRateCalculationMethod === 'per_bag' ? 75 : 100;\n",
       "                                             const baseRateValue = parseFloat(rateFormData.baseRate || '0');\n",
       "                                             const baseRateAmount = (actualNetWeight / baseDivisor) * baseRateValue;\n",
       "\n",
       "                                             // 2. Sute Amount (Weight converted to Money using Base Rate)\n",
       "                                             const suteValue = parseFloat(rateFormData.sute || '0');\n",
       "                                             const suteWeightKg = rateFormData.suteCalculationMethod === 'per_bag'\n",
       "                                               ? suteValue * bags\n",
       "                                               : (actualNetWeight / 100) * suteValue;\n",
       "                                             const suteAmount = (suteWeightKg / baseDivisor) * baseRateValue;\n",
       "\n",
       "                                             // 3. Charges calculation (Simply added, respects user sign)\n",
       "                                             const hValue = parseFloat(rateFormData.h || '0');\n",
       "                                             const hAmount = rateFormData.hCalculationMethod === 'per_bag'\n",
       "                                               ? hValue * bags\n",
       "                                               : hValue * (actualNetWeight / 100);\n",
       "\n",
       "                                             const bValue = parseFloat(rateFormData.b || '0');\n",
       "                                             const bAmount = rateFormData.bCalculationMethod === 'per_bag'\n",
       "                                               ? bValue * bags\n",
       "                                               : bValue * (actualNetWeight / 100);\n",
       "\n",
       "                                             let lfValue = parseFloat(rateFormData.lf || '0');\n",
       "                                             if (['MDL', 'MDWB'].includes(rateFormData.rateType)) {\n",
       "                                               lfValue = 0;\n",
       "                                             }\n",
       "                                             const lfAmount = rateFormData.lfCalculationMethod === 'per_bag'\n",
       "                                               ? lfValue * bags\n",
       "                                               : lfValue * (actualNetWeight / 100);\n",
       "\n",
       "                                             const showEGB = ['CDL', 'MDL'].includes(rateFormData.rateType);\n",
       "                                             const egbAmount = showEGB ? bags * parseFloat(rateFormData.egb || '0') : 0;\n",
       "\n",
       "                                             const totalAmount = baseRateAmount - suteAmount + hAmount + bAmount + lfAmount + egbAmount;\n",
       "                                             return totalAmount.toFixed(2);\n" >>

new_logic(s) == IF s = FixedFinal THEN new_logic_fixed_final ELSE new_logic_final

\* what the start of the block and its last line are searched by
StartMarker(s) ==
    IF s = FixedFinal THEN "// 1. Calculate Sute Weight" ELSE "// 1. Base Rate Amount"
ReturnMarker == "return totalAmount.toFixed(2);"

\* ... and i > 9000
StartAfter == 9000
\* range(start_line, start_line + 60)
Window == 60

\* lines[i], i counted from 0
Line(ls, i) == ls[i + 1]

\* for i, line in enumerate(lines):
\*     if marker in line and i > 9000: start_line = i; break
\* -1 when the loop ends without a hit
StartLine(s, ls) ==
    LET hits == {i \in 0..(Len(ls) - 1) :
                    i > StartAfter /\ Contains(StartMarker(s), Line(ls, i))}
    IN  IF hits = {} THEN -1 ELSE CHOOSE i \in hits : \A j \in hits : i <= j

\* lines[i] with i = len(lines) raises IndexError
IndexError == -2

\* EndLine that stops at the end of the file and takes the last line it
\* looked at when the return statement is not found
EndLine_Clamped(ls, start) ==
    LET hits == {i \in start..(start + Window - 1) :
                    i < Len(ls) /\ Contains(ReturnMarker, Line(ls, i))}
    IN  IF hits # {} THEN CHOOSE i \in hits : \A j \in hits : i <= j
        ELSE IF Len(ls) < start + Window THEN Len(ls) - 1
        ELSE start + Window - 1

\* for i in range(start_line, start_line + 60):
\*     if "return totalAmount.toFixed(2);" in lines[i]: end_line = i; break
\* -1 when the loop ends without a hit, IndexError when it runs off the file
EndLine(ls, start) ==
    LET hits == {i \in start..(start + Window - 1) :
                    i < Len(ls) /\ Contains(ReturnMarker, Line(ls, i))}
    IN  IF hits # {} THEN CHOOSE i \in hits : \A j \in hits : i <= j
        ELSE IF Len(ls) < start + Window THEN IndexError
        ELSE -1

\* Splice with the slice one short: lines[start_line:end_line] = new_logic
Splice_KeepsEnd(ls, start, end, new) ==
    SubSeq(ls, 1, start) \o new \o SubSeq(ls, end + 1, Len(ls))

\* lines[start_line:end_line+1] = new_logic
Splice(ls, start, end, new) ==
    SubSeq(ls, 1, start) \o new \o SubSeq(ls, end + 2, Len(ls))

\* sampled lines of Records.tsx: an empty line, the first and the last line
\* of the block as an earlier patch left them, a line in between
FillerLine == "\n"
Filler(n) == [i \in 1..n |-> FillerLine]
OldStart(s) == "      " \o StartMarker(s) \o "\n"
OldLine == "      const totalAmount = 0;\n"
OldReturn == "      return totalAmount.toFixed(2);\n"
OldLines(n) == [i \in 1..n |-> OldLine]

\* what comes before the block: 9001 lines, so that the block starts at
\* index 9001; 9000 lines; 9001 lines with a start marker at index 10
PrefixSamples(s) ==
    { Filler(StartAfter + 1),
      Filler(StartAfter),
      Filler(10) \o <<OldStart(s)>> \o Filler(StartAfter - 10) }

\* the block: no start marker, the script's, or the other script's; the
\* return statement at the next line, at the last line the search looks
\* at, or right after it; or no return statement
BlockSamples(s) ==
    { m \o OldLines(g) \o r :
        m \in {<<>>, <<OldStart(s)>>, <<OldStart(CHOOSE o \in PatchScripts : o # s)>>},
        g \in {0, Window - 2, Window - 1},
        r \in {<<>>, <<OldReturn>>} }

\* what follows the block: nothing, one line, 60 lines
TailSamples == {Filler(0), Filler(1), Filler(Window)}

\* the sampled Records.tsx
TargetSamples(s) ==
    {p \o b \o t : p \in PrefixSamples(s), b \in BlockSamples(s), t \in TailSamples}

\* one of the patch scripts is started on a sampled Records.tsx
PatchInit ==
    /\ script \in PatchScripts
    /\ target \in TargetSamples(script)
    /\ lines = <<>>
    /\ start_line = -1
    /\ end_line = -1
    /\ writes = 0
    /\ first = NoFirst
    /\ pc = "start"
    /\ run = 1
    /\ now \in NowSamples
    /\ dirs = <<>>
    /\ manifest = <<>>
    /\ files = <<>>
    /\ ri = 1
    /\ fi = 1
    /\ found_files = <<>>
    /\ k = 1
    /\ listing = <<>>
    /\ outdir = EmptyDir
    /\ prior = EmptyDir
    /\ removals = 0

\* with open(file_path, 'r', encoding='utf-8') as f: lines = f.readlines()
PatchRead ==
    /\ script \in PatchScripts
    /\ pc = "start"
    /\ lines' = target
    /\ pc' = "find_start"
    /\ UNCHANGED <<script, run, target, start_line, end_line, writes, first>>
    /\ UNCHANGED scanVars

\* the search for the start marker; without a hit the script prints
\* "Could not find start of logic block" and ends
PatchFindStart ==
    /\ script \in PatchScripts
    /\ pc = "find_start"
    /\ start_line' = StartLine(script, lines)
    /\ end_line' = -1
    /\ pc' = IF StartLine(script, lines) = -1 THEN "done" ELSE "find_end"
    /\ UNCHANGED <<script, run, target, lines, writes, first>>
    /\ UNCHANGED scanVars

\* the search for the return statement; without a hit the script prints
\* "Could not find end of logic block" and ends, and when the file ends
\* before the statement is found, lines[i] raises and nothing catches it
PatchFindEnd ==
    /\ script \in PatchScripts
    /\ pc = "find_end"
    /\ IF EndLine(lines, start_line) = IndexError
       THEN pc' = "crashed" /\ UNCHANGED end_line
       ELSE /\ end_line' = EndLine(lines, start_line)
            /\ pc' = IF EndLine(lines, start_line) = -1 THEN "done" ELSE "write"
    /\ UNCHANGED <<script, run, target, lines, start_line, writes, first>>
    /\ UNCHANGED scanVars

\* lines[start_line:end_line+1] = new_logic
\* with open(file_path, 'w', encoding='utf-8') as f: f.writelines(lines)
PatchWrite ==
    /\ script \in PatchScripts
    /\ pc = "write"
    /\ lines' = Splice(lines, start_line, end_line, new_logic(script))
    /\ target' = lines'
    /\ writes' = writes + 1
    /\ pc' = "done"
    /\ UNCHANGED <<script, run, start_line, end_line, first>>
    /\ UNCHANGED scanVars

\* the same script is applied again to the file as the first application
\* left it
PatchRerun ==
    /\ script \in PatchScripts
    /\ Terminated
    /\ run = 1
    /\ run' = 2
    /\ first' = [target |-> target, start_line |-> start_line, writes |-> writes]
    /\ lines' = <<>>
    /\ start_line' = -1
    /\ end_line' = -1
    /\ pc' = "start"
    /\ UNCHANGED <<script, target, writes>>
    /\ UNCHANGED scanVars

PatchNext ==
    \/ PatchRead
    \/ PatchFindStart
    \/ PatchFindEnd
    \/ PatchWrite
    \/ PatchRerun

PatchSpec == PatchInit /\ [][PatchNext]_vars

-----------------------------------------------------------------------------
(* What the claims speak of.                                               *)

\* the scan of the manifests is over and found_files is not sorted yet
ScanDone == script \in ManifestScripts /\ pc = "sort"

\* the folders the scan goes through: <<root, folder>>
Visited ==
    {v \in Roots(script) \X Folders :
        \E i \in DOMAIN dirs[v[1]].list : dirs[v[1]].list[i] = v[2]}

\* the snapshot entries of the manifests that parse: <<root, folder, index>>
EntriesOnDisk ==
    {e \in Roots(script) \X Folders \X (1..MaxEntries) :
        /\ <<e[1], e[2]>> \in Visited
        /\ manifest[e[2]].kind = ParsedJson
        /\ e[3] \in DOMAIN manifest[e[2]].entries}

EntryOf(e) == manifest[e[2]].entries[e[3]]

\* the blob of the entry exists and the entry satisfies the selector of the
\* script: the file name (search_history_records), the last 7 days (master)
Matches(e) ==
    /\ EntryOf(e).id # NoId
    /\ Join(e[1], e[2], EntryOf(e).id) \in DOMAIN files
    /\ script = Search => NameMatches(manifest[e[2]].resource)
    /\ script = Master => Recent(FromTimestamp(EntryOf(e).timestamp))

\* the candidate a matching entry stands for
CandidateOf(e) ==
    Candidate(script, FromTimestamp(EntryOf(e).timestamp), manifest[e[2]].resource,
              Join(e[1], e[2], EntryOf(e).id))

Count(seq, c) == Cardinality({i \in DOMAIN seq : seq[i] = c})

\* how many matching entries, of the set es, stand for the candidate c
Expected(es, c) == Cardinality({e \in es : Matches(e) /\ CandidateOf(e) = c})

\* the candidates the listing/copy loop has copied so far
Copied == SubSeq(Selected(script, found_files), 1, k - 1)

-----------------------------------------------------------------------------
(* The claims.                                                             *)

\* C1: when every manifest parses, the scan's result holds each entry whose
\* blob exists and which satisfies the selector exactly once, and nothing else.
C1_ScanExact ==
    (ScanDone /\ \A v \in Visited : manifest[v[2]].kind # BadJson)
    => /\ \A e \in EntriesOnDisk :
             Matches(e) => Count(found_files, CandidateOf(e)) = Expected(EntriesOnDisk, CandidateOf(e))
       /\ \A j \in DOMAIN found_files :
             \E e \in EntriesOnDisk : Matches(e) /\ CandidateOf(e) = found_files[j]

\* C2: with the copy limit K and M >= K candidates, a completed first run
\* leaves exactly K files in the output directory, copies of the K
\* candidates with the largest timestamps.
C2_LimitCopiesTopK ==
    (HasLimit(script) /\ run = 1 /\ pc = "done" /\ Len(found_files) >= Limit(script))
    => /\ Cardinality(DOMAIN outdir) = Limit(script)
       /\ \A n \in DOMAIN outdir :
             \E j \in DOMAIN found_files :
                /\ found_files[j].src = outdir[n]
                /\ Cardinality({i \in DOMAIN found_files : After(found_files[i].dt, found_files[j].dt)})
                       < Limit(script)

C4_DistinctNames ==
    \A i, j \in DOMAIN Copied :
        Copied[i] # Copied[j]
        => SafeName(script, Copied[i]) # SafeName(script, Copied[j])

\* C5: the listing/copy loop goes in non-increasing timestamp order, and of
\* two candidates with equal timestamps both are in the listing of a
\* completed run.
C5_OrderedNoDrop ==
    /\ \A i, j \in DOMAIN listing : i < j => ~After(listing[j].dt, listing[i].dt)
    /\ pc = "done"
       => \A i, j \in DOMAIN found_files :
             (i # j /\ found_files[i].dt = found_files[j].dt)
             => Count(listing, found_files[i]) = Count(found_files, found_files[i])

\* C6: when evaluating one entry of a manifest fails, only that entry is left
\* out: every matching entry of the manifest, later ones included, is in the
\* result.
C6_PerEntryIsolation ==
    ScanDone
    => \A e \in EntriesOnDisk :
          (Matches(e) /\ \E x \in EntriesOnDisk : x[2] = e[2] /\ EntryOf(x).id = NoId)
          => Count(found_files, CandidateOf(e)) >= 1

\* C7: a blob removed between the scan and its copy is skipped: the run does
\* not abort, and a completed run has gone through every selected candidate.
C7_RemovedBlobSkipped ==
    /\ (pc = "crashed" /\ script # Unique)
          => \A j \in DOMAIN Selected(script, found_files) :
                Selected(script, found_files)[j].src \in DOMAIN files
    /\ pc = "done" => k = Len(Selected(script, found_files)) + 1

\* C8: a folder whose manifest does not parse adds no candidate, keeps the
\* candidates collected so far, and the scan goes on with the next folder;
\* at the end of the scan no candidate comes from such a folder and the
\* folders whose manifest is intact have all their matching entries in.
C8_BadManifestSkipped ==
    /\ [][ (pc = "folders" /\ fi <= Len(dirs[Root].list)
               /\ manifest[dirs[Root].list[fi]].kind = BadJson)
           => (found_files' = found_files /\ pc' = "folders" /\ fi' = fi + 1 /\ ri' = ri) ]_vars
    /\ [](ScanDone =>
            /\ \A j \in DOMAIN found_files : manifest[found_files[j].src[2]].kind # BadJson
            /\ \A e \in EntriesOnDisk :
                  (/\ \E v \in Visited : manifest[v[2]].kind = BadJson
                   /\ Matches(e)
                   /\ \A x \in EntriesOnDisk : x[2] = e[2] => EntryOf(x).id # NoId)
                  => Count(found_files, CandidateOf(e))
                        = Expected(EntriesOnDisk, CandidateOf(e)))

\* the scan is over, the first folder's manifest did not parse, and the
\* folder after it has given candidates
C8_Witness ==
    /\ ScanDone
    /\ \E v \in Visited : v[2] = F1
    /\ manifest[F1].kind = BadJson
    /\ Len(found_files) >= 2

\* C9: with some or all history roots missing the run still completes with
\* its closing line, and no candidate comes from a missing root.
C9_MissingRootsTolerated ==
    (Terminated /\ removals = 0 /\ \E r \in Roots(script) : ~dirs[r].exists)
    => /\ pc = "done"
       /\ \A j \in DOMAIN found_files : dirs[found_files[j].src[1]].exists

\* C10: entries that share a resource URI are not merged: when all entries of
\* a resource match, each of them is a candidate of its own in the result of
\* the scan, and in the result a run ends with.
C10_NoDedupByUri ==
    (script \notin WalkScripts /\ (ScanDone \/ (Terminated /\ removals = 0)))
    => \A u \in ResourceSamples :
          LET G == {e \in EntriesOnDisk : manifest[e[2]].resource = u}
          IN  (Cardinality(G) >= 2 /\ \A e \in G : Matches(e))
              => /\ Cardinality({j \in DOMAIN found_files : found_files[j].uri = u}) = Cardinality(G)
                 /\ \A e \in G : Count(found_files, CandidateOf(e)) = Expected(G, CandidateOf(e))

\* C11: the listing a completed run has printed holds one line for every
\* candidate of the scan, also when the copy limit is below their number.
C11_ListingComplete ==
    pc = "done"
    => \A j \in DOMAIN found_files :
          Count(listing, found_files[j]) = Count(found_files, found_files[j])

\* the files find_records_history.py has stat-ed and whose first 1000
\* characters hold both markers
WithMarkers ==
    {p \in DOMAIN files :
        files[p].readable /\ HeaderMatches(ReadHeader(files[p].header))}

\* C12 (as stated): the size window takes a file exactly when
\* low <= size < high: a file of the lower bound's size is a candidate, one
\* of the upper bound's size is not.
C12_SizeWindowHalfOpen ==
    (script = Find /\ pc = "sort")
    => \A p \in WithMarkers :
          (\E j \in DOMAIN found_files : found_files[j].src = p)
          <=> (SizeLow <= files[p].size /\ files[p].size < SizeHigh)

\* C12 (amended): the size window takes a file exactly when
\* low < size < high: a file of the size of either bound is no candidate.
C12_SizeWindowOpen ==
    (script = Find /\ pc = "sort")
    => \A p \in WithMarkers :
          (\E j \in DOMAIN found_files : found_files[j].src = p)
          <=> (SizeLow < files[p].size /\ files[p].size < SizeHigh)

\* the walk has met a file of each bound's size and one in between, and
\* has taken the last alone
C12_Witness ==
    /\ script = Find
    /\ pc = "sort"
    /\ \E p, q, r \in WithMarkers :
          /\ files[p].size = SizeLow
          /\ files[q].size = SizeHigh
          /\ SizeLow < files[r].size /\ files[r].size < SizeHigh
          /\ Len(found_files) = 1
          /\ found_files[1].src = r

\* the folders whose manifest parses and lists entries that all have an id
\* and a blob: <<root, folder>>
Intact ==
    {v \in Visited :
        /\ manifest[v[2]].kind = ParsedJson
        /\ manifest[v[2]].entries # <<>>
        /\ \A i \in DOMAIN manifest[v[2]].entries :
              /\ manifest[v[2]].entries[i].id # NoId
              /\ Join(v[1], v[2], manifest[v[2]].entries[i].id) \in DOMAIN files}

\* C13: the file name selector takes a folder exactly when the basename of
\* the manifest's resource URI holds the target, whatever the case; a URI
\* with the target in a directory component only is not taken.
C13_BasenameMatch ==
    (script = Search /\ pc = "sort")
    => \A v \in Intact :
          (\E j \in DOMAIN found_files :
                found_files[j].src[1] = v[1] /\ found_files[j].src[2] = v[2])
          <=> Contains(Lower(target_filename), Lower(Basename(manifest[v[2]].resource)))

\* the first application of the patch found its block and rewrote the file
FirstApplied == run = 2 /\ first.writes = 1

\* C14: the patch is idempotent.  An application that rewrites the file
\* leaves the lines before the start marker and the lines after the return
\* statement as they were, in their order, with new_logic in between; and
\* after an application that rewrote the file, a second one ends normally,
\* finds the block at the same place and leaves the file as the first did.
C14_PatchIdempotent ==
    /\ [][ writes' # writes
           => /\ SubSeq(target', 1, start_line) = SubSeq(target, 1, start_line)
              /\ SubSeq(target', start_line + 1, start_line + Len(new_logic(script)))
                    = new_logic(script)
              /\ SubSeq(target', start_line + Len(new_logic(script)) + 1, Len(target'))
                    = SubSeq(target, end_line + 2, Len(target)) ]_vars
    /\ []((FirstApplied /\ Terminated)
            => /\ pc = "done"
               /\ writes = 2
               /\ start_line = first.start_line
               /\ end_line = start_line + Len(new_logic(script)) - 1
               /\ target = first.target)

\* the patch was applied twice to a file with lines after the block, and
\* rewrote it both times
C14_Witness ==
    /\ script \in PatchScripts
    /\ FirstApplied
    /\ pc = "done"
    /\ writes = 2
    /\ start_line > StartAfter
    /\ Len(target) > start_line + Len(new_logic(script))

\* the file t has the block the script s looks for: the first line with the
\* start marker at an index above 9000 is followed, within 60 lines from
\* it, by a line with the return statement
BlockFound(s, t) ==
    \E i \in 0..(Len(t) - 1) :
        /\ i > StartAfter
        /\ Contains(StartMarker(s), Line(t, i))
        /\ \A j \in (StartAfter + 1)..(i - 1) : ~Contains(StartMarker(s), Line(t, j))
        /\ \E e \in i..(i + Window - 1) :
              e < Len(t) /\ Contains(ReturnMarker, Line(t, e))

\* C15: the patch rewrites the file only if the start marker, at an index
\* above 9000, and the return statement, within 60 lines from it, are both
\* found; otherwise, also when the file ends less than 60 lines after the
\* start marker, the file stays as it is.
C15_NoBlockNoWrite ==
    [][ ~BlockFound(script, target) => (target' = target /\ writes' = writes) ]_vars

\* the start marker was found, the file ended before the return statement
\* was, and the script ended with the file not written
C15_Witness ==
    /\ script \in PatchScripts
    /\ pc = "crashed"
    /\ start_line > StartAfter
    /\ Len(lines) < start_line + Window
    /\ writes = 0
    /\ target = lines

====
